---- MODULE Spec2Model ----
(***************************************************************************)
(* A model of the CPU feature probe and of the aligned allocation helpers  *)
(* of OpenImageIO's platform.h (src/src/include/OpenImageIO/platform.h).   *)
(*                                                                         *)
(* Registers are 32-bit words held as signed values (C's int), in          *)
(* MinInt32 .. MaxInt32, so that bit 31 is the sign.                       *)
(***************************************************************************)
EXTENDS Integers, Sequences, FiniteSets, TLC

VARIABLES
    x86,      \* the target is x86/x86-64 (the #if of cpuid, fixed at build)
    hw,       \* what the cpuid instruction answers: [<<leaf, subleaf>> -> info]
    pc,       \* per thread: where its running cpu_has_* call stands
    fn,       \* per thread: the query it is running or has last run
    buf,      \* the int i[4] buffers of the running calls
    ret,      \* per thread: <<b>> once its last call has returned b
    ncpuid,   \* per thread: cpuid calls issued by its current/last call
    blocks,   \* the live blocks of the aligned allocator: [base, size]
    objs,     \* the objects in live blocks: [ptr, ev], ev the constructor and
              \* destructor calls made on the object so far
    retired,  \* the histories (ev, ending in the release) of the objects whose
              \* storage has been released
    held,     \* caller: pointers aligned_new returned, not yet given to aligned_delete
    raw,      \* caller: the pointer its aligned_malloc call returned, null once freed
    last,     \* the last allocator call: its arguments, outcome and the calls it made
    debug,    \* assertions are enabled (NDEBUG is not defined, fixed at build)
    tmp       \* the last expansion of OIIO_ALLOCA or OIIO_ALLOCATE_STACK_OR_HEAP
              \* that ran: its arguments and what it did

cpuVars == <<x86, hw, pc, fn, buf, ret, ncpuid>>
memVars == <<blocks, objs, retired, held, raw, last>>
stackVars == <<debug, tmp>>
vars == <<cpuVars, memVars, stackVars>>

----------------------------------------------------------------------------
(* 32-bit words *)

MaxInt32 == 2147483647
MinInt32 == -MaxInt32 - 1

\* the low 31 bits of a word, as a natural number
Low31(x) == IF x < 0 THEN (x + MaxInt32) + 1 ELSE x

RECURSIVE AndBits(_, _, _)
\* bitwise and of two naturals below 2^n
AndBits(a, b, n) ==
    IF n = 0 THEN 0
    ELSE (IF a % 2 = 1 /\ b % 2 = 1 THEN 1 ELSE 0)
         + 2 * AndBits(a \div 2, b \div 2, n - 1)

\* C's a & b on 32-bit operands (the same bit pattern whether the operands
\* are int or, after the usual conversions, unsigned)
And32(a, b) ==
    LET low == AndBits(Low31(a), Low31(b), 31)
    IN  IF a < 0 /\ b < 0 THEN (low - MaxInt32) - 1 ELSE low

\* C's (1 << n) for the shifts of the source, 0 <= n <= 30
Shl1(n) == 2 ^ n

\* the literal 0x80000000 (1 << 31 as a bit pattern)
Hex80000000 == MinInt32

----------------------------------------------------------------------------
(* cpuid *)

Leaves    == {1, 7}
SubLeaves == {0, 1}
Selectors == Leaves \X SubLeaves
Zeros     == [k \in 0..3 |-> 0]
Ones      == [k \in 0..3 |-> -1]
\* what an int i[4] without initializer may hold when the call starts
Garbage   == {Zeros, Ones}

\* variant: the non-x86 branch leaves info as it was
cpuid_nowrite(info, infoType, extra) ==
    IF x86 THEN hw[<<infoType, extra>>] ELSE info

\* cpuid(info, infoType, extra): the contents of info afterwards
cpuid(info, infoType, extra) ==
    IF x86 THEN hw[<<infoType, extra>>] ELSE Zeros

----------------------------------------------------------------------------
(* the queries: the value of each function's return expression, given the *)
(* contents i of its buffer                                                *)

cpu_has_sse2(i)       == And32(i[3], Shl1(26)) # 0
cpu_has_sse3(i)       == And32(i[2], Shl1(0)) # 0
cpu_has_ssse3(i)      == And32(i[2], Shl1(9)) # 0
cpu_has_fma(i)        == And32(i[2], Shl1(12)) # 0
cpu_has_sse41(i)      == And32(i[2], Shl1(19)) # 0
cpu_has_sse42(i)      == And32(i[2], Shl1(20)) # 0
cpu_has_popcnt(i)     == And32(i[2], Shl1(23)) # 0
cpu_has_avx(i)        == And32(i[2], Shl1(28)) # 0
cpu_has_f16c(i)       == And32(i[2], Shl1(29)) # 0
cpu_has_rdrand(i)     == And32(i[2], Shl1(30)) # 0
cpu_has_avx2(i)       == And32(i[1], Shl1(5)) # 0
cpu_has_avx512f(i)    == And32(i[1], Shl1(16)) # 0
cpu_has_avx512dq(i)   == And32(i[1], Shl1(17)) # 0
cpu_has_avx512ifma(i) == And32(i[1], Shl1(21)) # 0
cpu_has_avx512pf(i)   == And32(i[1], Shl1(26)) # 0

\* variant: avx512er read off ebx bit 27 of whatever the buffer holds
cpu_has_avx512er_probed(i) == And32(i[1], Shl1(27)) # 0

cpu_has_avx512er(i)   == FALSE
cpu_has_avx512cd(i)   == And32(i[1], Shl1(28)) # 0
cpu_has_avx512bw(i)   == And32(i[1], Shl1(30)) # 0

\* variant: a signed test of the masked word, (i[1] & (1 << 31)) > 0
cpu_has_avx512vl_signed(i) == And32(i[1], Hex80000000) > 0

cpu_has_avx512vl(i)   == And32(i[1], Hex80000000) # 0

Leaf1Queries == {"cpu_has_sse2", "cpu_has_sse3", "cpu_has_ssse3", "cpu_has_fma",
                 "cpu_has_sse41", "cpu_has_sse42", "cpu_has_popcnt",
                 "cpu_has_avx", "cpu_has_f16c", "cpu_has_rdrand"}
Leaf7Queries == {"cpu_has_avx2", "cpu_has_avx512f", "cpu_has_avx512dq",
                 "cpu_has_avx512ifma", "cpu_has_avx512pf", "cpu_has_avx512cd",
                 "cpu_has_avx512bw", "cpu_has_avx512vl"}
NoProbeQueries == {"cpu_has_avx512er"}
ProbeQueries == Leaf1Queries \cup Leaf7Queries
Queries == ProbeQueries \cup NoProbeQueries

\* the infoType argument of the cpuid call a query makes (extra is always 0)
InfoType(f) == IF f \in Leaf1Queries THEN 1 ELSE 7
Extra(f) == 0

\* the value query f returns with i in its buffer
ReturnValue(f, i) ==
    CASE f = "cpu_has_sse2"       -> cpu_has_sse2(i)
      [] f = "cpu_has_sse3"       -> cpu_has_sse3(i)
      [] f = "cpu_has_ssse3"      -> cpu_has_ssse3(i)
      [] f = "cpu_has_fma"        -> cpu_has_fma(i)
      [] f = "cpu_has_sse41"      -> cpu_has_sse41(i)
      [] f = "cpu_has_sse42"      -> cpu_has_sse42(i)
      [] f = "cpu_has_popcnt"     -> cpu_has_popcnt(i)
      [] f = "cpu_has_avx"        -> cpu_has_avx(i)
      [] f = "cpu_has_f16c"       -> cpu_has_f16c(i)
      [] f = "cpu_has_rdrand"     -> cpu_has_rdrand(i)
      [] f = "cpu_has_avx2"       -> cpu_has_avx2(i)
      [] f = "cpu_has_avx512f"    -> cpu_has_avx512f(i)
      [] f = "cpu_has_avx512dq"   -> cpu_has_avx512dq(i)
      [] f = "cpu_has_avx512ifma" -> cpu_has_avx512ifma(i)
      [] f = "cpu_has_avx512pf"   -> cpu_has_avx512pf(i)
      [] f = "cpu_has_avx512er"   -> cpu_has_avx512er(i)
      [] f = "cpu_has_avx512cd"   -> cpu_has_avx512cd(i)
      [] f = "cpu_has_avx512bw"   -> cpu_has_avx512bw(i)
      [] f = "cpu_has_avx512vl"   -> cpu_has_avx512vl(i)

----------------------------------------------------------------------------
(* threads calling the queries *)

NThreads == 2
Threads == 1..NThreads

\* variant: one buffer shared by all calls (static int i[4])
SharedBuf(t) == 1

\* the buffer of thread t's call: int i[4] is a local of each call
LocalBuf(t) == t

\* a thread enters query f: its locals exist, nothing is computed yet
Call(t, f) ==
    /\ pc[t] = "idle"
    /\ fn' = [fn EXCEPT ![t] = f]
    /\ ret' = [ret EXCEPT ![t] = <<>>]
    /\ ncpuid' = [ncpuid EXCEPT ![t] = 0]
    /\ IF f \in NoProbeQueries
       THEN /\ pc' = [pc EXCEPT ![t] = "return"]
            /\ buf' = buf
       ELSE /\ pc' = [pc EXCEPT ![t] = "cpuid"]
            /\ \E g \in Garbage : buf' = [buf EXCEPT ![LocalBuf(t)] = g]
    /\ UNCHANGED <<x86, hw, memVars, stackVars>>

\* the call's cpuid(i, infoType, 0) statement
Cpuid(t) ==
    /\ pc[t] = "cpuid"
    /\ buf' = [buf EXCEPT ![LocalBuf(t)] =
                  cpuid(buf[LocalBuf(t)], InfoType(fn[t]), Extra(fn[t]))]
    /\ ncpuid' = [ncpuid EXCEPT ![t] = @ + 1]
    /\ pc' = [pc EXCEPT ![t] = "return"]
    /\ UNCHANGED <<x86, hw, fn, ret, memVars, stackVars>>

\* a caller's own cpuid(info, infoType, extra) on a buffer of its own
DirectCpuid(t, infoType, extra) ==
    /\ pc[t] = "idle"
    /\ fn' = [fn EXCEPT ![t] = "cpuid"]
    /\ ret' = [ret EXCEPT ![t] = <<>>]
    /\ ncpuid' = [ncpuid EXCEPT ![t] = 1]
    /\ \E g \in Garbage :
          buf' = [buf EXCEPT ![LocalBuf(t)] = cpuid(g, infoType, extra)]
    /\ UNCHANGED <<x86, hw, pc, memVars, stackVars>>

\* the call's return statement
Return(t) ==
    /\ pc[t] = "return"
    /\ ret' = [ret EXCEPT ![t] = <<ReturnValue(fn[t], buf[LocalBuf(t)])>>]
    /\ pc' = [pc EXCEPT ![t] = "idle"]
    /\ UNCHANGED <<x86, hw, fn, buf, ncpuid, memVars, stackVars>>

----------------------------------------------------------------------------
(* the hardware the model runs on: every register pattern with exactly one *)
(* bit set and all others clear, and with exactly one bit clear and all    *)
(* others set, over all selectors, registers and bits                      *)

Bit32(n) == IF n = 31 THEN Hex80000000 ELSE 2 ^ n
Not32(x) == (-1) - x

Positions == {<<s, r, b>> : s \in Selectors, r \in 0..3, b \in 0..31}
OneHot(p) == [s \in Selectors |->
                [r \in 0..3 |-> IF s = p[1] /\ r = p[2] THEN Bit32(p[3]) ELSE 0]]
AllBut(p) == [s \in Selectors |->
                [r \in 0..3 |-> IF s = p[1] /\ r = p[2] THEN Not32(Bit32(p[3])) ELSE -1]]
HwConfigs == {OneHot(p) : p \in Positions} \cup {AllBut(p) : p \in Positions}

\* the positions the queries of the source look at
QueryPositions ==
    {<<<<1, 0>>, 3, 26>>} \cup
    {<<<<1, 0>>, 2, b>> : b \in {0, 9, 12, 19, 20, 23, 28, 29, 30}} \cup
    {<<<<7, 0>>, 1, b>> : b \in {5, 16, 17, 21, 26, 27, 28, 30, 31}}
HwConfigsMT == {OneHot(p) : p \in QueryPositions} \cup {AllBut(p) : p \in QueryPositions}

InitThreads ==
    /\ pc = [t \in Threads |-> "idle"]
    /\ fn = [t \in Threads |-> "none"]
    /\ buf = [t \in Threads |-> Zeros]
    /\ ret = [t \in Threads |-> <<>>]
    /\ ncpuid = [t \in Threads |-> 0]


----------------------------------------------------------------------------
(* size_t: 64-bit unsigned words, held as four 16-bit limbs, lowest first *)

LimbBase == 2 ^ 16
Limbs == 1..4

RECURSIVE MulLimbs(_, _, _, _)
\* the limbs k .. 4 of w * m, with carry c coming in; the carry out of limb 4
\* is dropped
MulLimbs(w, m, k, c) ==
    IF k > 4 THEN <<>>
    ELSE LET v == w[k] * m + c
         IN  <<v % LimbBase>> \o MulLimbs(w, m, k + 1, v \div LimbBase)

\* size * sizeof(type) in size_t arithmetic (modulo 2^64), sizeof(type) small
MulSizeT(w, m) == MulLimbs(w, m, 1, 0)

RECURSIVE LessFrom(_, _, _)
LessFrom(a, b, k) ==
    IF k = 0 THEN FALSE
    ELSE a[k] < b[k] \/ (a[k] = b[k] /\ LessFrom(a, b, k - 1))

\* a < b and a <= b on size_t
Less(a, b) == LessFrom(a, b, 4)
LessEq(a, b) == a = b \/ Less(a, b)

\* (1 << 20) and (1 << 16), converted to the type of the other operand
Shl20 == <<0, 16, 0, 0>>
Shl16 == <<0, 1, 0, 0>>
ZeroWord == <<0, 0, 0, 0>>

----------------------------------------------------------------------------
(* OIIO_ALLOCA and OIIO_ALLOCATE_STACK_OR_HEAP *)

\* OIIO_ALLOCA(type, size), szof being sizeof(type): the assert's failure ends
\* the program; otherwise alloca of (size) * sizeof(type) bytes, or nullptr
OIIO_ALLOCA(szof, size) ==
    IF debug /\ ~Less(size, Shl20)
    THEN [did |-> "assert failed", bytes |-> ZeroWord]
    ELSE IF size # ZeroWord
         THEN [did |-> "alloca", bytes |-> MulSizeT(size, szof)]
         ELSE [did |-> "nullptr", bytes |-> ZeroWord]

\* OIIO_ALLOCATE_STACK_OR_HEAP(var, T, size), szof being sizeof(T): the branch
\* taken, what OIIO_ALLOCA did in the stack branch, and the number of elements
\* of the new T[] the unique_ptr holds (heap <<>> when it is empty)
OIIO_ALLOCATE_STACK_OR_HEAP(szof, size) ==
    IF LessEq(MulSizeT(size, szof), Shl16)
    THEN [branch |-> "stack", heap |-> <<>>] @@ OIIO_ALLOCA(szof, size)
    ELSE [branch |-> "heap", heap |-> <<size>>, did |-> "new[]", bytes |-> ZeroWord]

MaxSizeof == 8
\* the limb values the element counts are built from
LimbSamples == {0, 1, 4, 15, 16, 16384, 32768, 65535}
SizeSamples == [Limbs -> LimbSamples]

TmpRecord(macro, szof, size, r) ==
    [macro |-> macro, szof |-> szof, size |-> size] @@ r

NoTmp ==
    TmpRecord("none", 1, ZeroWord,
              [branch |-> "stack", heap |-> <<>>, did |-> "nullptr", bytes |-> ZeroWord])

\* a scope uses OIIO_ALLOCA(type, size) directly, for some type and size
Alloca ==
    /\ tmp = NoTmp
    /\ \E szof \in 1..MaxSizeof, size \in SizeSamples :
          tmp' = TmpRecord("OIIO_ALLOCA", szof, size,
                           [branch |-> "stack", heap |-> <<>>] @@ OIIO_ALLOCA(szof, size))
    /\ UNCHANGED <<debug, cpuVars, memVars>>

\* a scope uses OIIO_ALLOCATE_STACK_OR_HEAP(var, T, size), for some T and size
AllocateStackOrHeap ==
    /\ tmp = NoTmp
    /\ \E szof \in 1..MaxSizeof, size \in SizeSamples :
          tmp' = TmpRecord("OIIO_ALLOCATE_STACK_OR_HEAP", szof, size,
                           OIIO_ALLOCATE_STACK_OR_HEAP(szof, size))
    /\ UNCHANGED <<debug, cpuVars, memVars>>

\* the scope is left (or the failed assert has ended the run): the alloca
\* storage goes with the frame, the unique_ptr deletes its array
ScopeExit ==
    /\ tmp # NoTmp
    /\ tmp' = NoTmp
    /\ UNCHANGED <<debug, cpuVars, memVars>>

InitTmp == tmp = NoTmp

----------------------------------------------------------------------------
(* the aligned allocator *)

Null == 0
\* alignof(void*)
PtrAlign == 8
\* addresses are 1 .. MemTop - 1
MemTop == 64
MaxAlignLog == 5
MaxSize == 2

Addrs == 1..(MemTop - 1)
Aligns == {2 ^ k : k \in 0..MaxAlignLog}
\* the types aligned_new is instantiated with: sizeof(T), alignof(T)
Types == {[sizeof |-> a, alignof |-> a] : a \in Aligns}

Overlaps(b, a, n) == a < b.base + b.size /\ b.base < a + n

\* variant: the alignment request is ignored
aligned_malloc_misaligned(bs, size, align) ==
    {Null} \cup {a \in Addrs : /\ a + size <= MemTop
                               /\ \A b \in bs : ~Overlaps(b, a, size)}

\* aligned_malloc(size, align) with the blocks bs live: the addresses it may
\* return (null when the request cannot be, or is not, satisfied)
aligned_malloc(bs, size, align) ==
    {Null} \cup {a \in Addrs : /\ a % align = 0
                               /\ a + size <= MemTop
                               /\ \A b \in bs : ~Overlaps(b, a, size)}

\* aligned_free(ptr) with the blocks bs live: the blocks live afterwards
aligned_free(bs, ptr) ==
    IF ptr = Null THEN bs ELSE {b \in bs : b.base # ptr}

\* the calls a wrapper makes, in order
Ev(call, p, size, align, threw) ==
    [call |-> call, p |-> p, size |-> size, align |-> align, threw |-> threw]
MallocEv(size, align, p) == Ev("aligned_malloc", p, size, align, FALSE)
CtorEv(p, threw) == Ev("ctor", p, 0, 0, threw)
DtorEv(p)        == Ev("dtor", p, 0, 0, FALSE)
FreeEv(p)        == Ev("aligned_free", p, 0, 0, FALSE)

\* variant: >= in place of >
static_assert_ge(T) == T.alignof >= PtrAlign

\* static_assert(alignof(T) > alignof(void*))
static_assert(T) == T.alignof > PtrAlign

\* variant: the constructor runs without the test of ptr
aligned_new_unchecked(T, ptr, throws) ==
    [calls   |-> <<MallocEv(T.sizeof, T.alignof, ptr), CtorEv(ptr, throws)>>,
     outcome |-> IF throws THEN "threw" ELSE "returned",
     ret     |-> IF throws THEN Null ELSE ptr]

\* aligned_new<T>(args...), ptr being what its aligned_malloc call returned and
\* throws telling whether T's constructor exits by an exception: the calls it
\* makes, how it ends and what it returns
aligned_new(T, ptr, throws) ==
    IF ptr # Null
    THEN [calls   |-> <<MallocEv(T.sizeof, T.alignof, ptr), CtorEv(ptr, throws)>>,
          outcome |-> IF throws THEN "threw" ELSE "returned",
          ret     |-> IF throws THEN Null ELSE ptr]
    ELSE [calls   |-> <<MallocEv(T.sizeof, T.alignof, ptr)>>,
          outcome |-> "returned",
          ret     |-> Null]

\* variant: the block is released before the destructor runs
aligned_delete_free_first(t) ==
    IF t # Null THEN <<FreeEv(t), DtorEv(t)>> ELSE <<>>

\* variant: no test of t
aligned_delete_unchecked(t) == <<DtorEv(t), FreeEv(t)>>

\* aligned_delete<T>(t): the calls it makes, in order
aligned_delete(t) ==
    IF t # Null THEN <<DtorEv(t), FreeEv(t)>> ELSE <<>>

\* the objects whose storage starts at p
ObjectsAt(os, p) == {o \in os : o.ptr = p}

\* the effect of one call on the live blocks and on the objects
Effect(st, e) ==
    CASE e.call = "aligned_malloc" ->
            [st EXCEPT !.blocks = IF e.p = Null THEN @
                                  ELSE @ \cup {[base |-> e.p, size |-> e.size]}]
      [] e.call = "ctor" ->
            [st EXCEPT !.objs = @ \cup {[ptr |-> e.p,
                                         ev |-> <<IF e.threw THEN "ctor threw" ELSE "ctor">>]}]
      [] e.call = "dtor" ->
            IF ObjectsAt(st.objs, e.p) = {}
            THEN [st EXCEPT !.retired = @ \cup {<<"dtor">>}]
            ELSE [st EXCEPT !.objs = {IF o.ptr = e.p
                                      THEN [o EXCEPT !.ev = Append(@, "dtor")]
                                      ELSE o : o \in @}]
      [] e.call = "aligned_free" ->
            [st EXCEPT !.blocks = aligned_free(@, e.p),
                       !.objs = @ \ ObjectsAt(@, e.p),
                       !.retired = @ \cup {Append(o.ev, "free") : o \in ObjectsAt(st.objs, e.p)}]

RECURSIVE Effects(_, _)
Effects(st, calls) ==
    IF calls = <<>> THEN st ELSE Effects(Effect(st, Head(calls)), Tail(calls))

Heap == [blocks |-> blocks, objs |-> objs, retired |-> retired]

LastCall(op, size, align, arg, r) ==
    [op |-> op, size |-> size, align |-> align, arg |-> arg,
     ret |-> r.ret, outcome |-> r.outcome, calls |-> r.calls]

\* the caller calls aligned_malloc(size, align) and keeps the result in raw
\* (it frees the block raw points to before it calls again)
AlignedMalloc(size, align) ==
    /\ raw = Null
    /\ \E p \in aligned_malloc(blocks, size, align) :
          LET calls == <<MallocEv(size, align, p)>>
              st == Effects(Heap, calls)
          IN  /\ blocks' = st.blocks
              /\ objs' = st.objs
              /\ retired' = st.retired
              /\ raw' = p
              /\ last' = LastCall("aligned_malloc", size, align, Null,
                                  [ret |-> p, outcome |-> "returned", calls |-> calls])
    /\ UNCHANGED <<held, cpuVars, stackVars>>

\* the caller calls aligned_free(ptr), with null or the pointer it got from
\* aligned_malloc and has not freed
AlignedFree(ptr) ==
    /\ ptr \in {raw, Null}
    /\ LET calls == <<FreeEv(ptr)>>
           st == Effects(Heap, calls)
       IN  /\ blocks' = st.blocks
           /\ objs' = st.objs
           /\ retired' = st.retired
           /\ last' = LastCall("aligned_free", 0, 0, ptr,
                               [ret |-> Null, outcome |-> "returned", calls |-> <<>>])
    /\ raw' = IF ptr = Null THEN raw ELSE Null
    /\ UNCHANGED <<held, cpuVars, stackVars>>

\* the caller instantiates and calls aligned_new<T>; a T that fails the
\* static_assert does not compile, and no call is made
AlignedNew(T, throws) ==
    /\ IF ~static_assert(T)
       THEN /\ last' = LastCall("aligned_new", T.sizeof, T.alignof, Null,
                                [ret |-> Null, outcome |-> "ill-formed", calls |-> <<>>])
            /\ UNCHANGED <<blocks, objs, retired, held>>
       ELSE \E p \in aligned_malloc(blocks, T.sizeof, T.alignof) :
               LET r == aligned_new(T, p, throws)
                   st == Effects(Heap, r.calls)
               IN  /\ blocks' = st.blocks
                   /\ objs' = st.objs
                   /\ retired' = st.retired
                   /\ held' = IF r.outcome = "returned" /\ r.ret # Null
                              THEN held \cup {r.ret} ELSE held
                   /\ last' = LastCall("aligned_new", T.sizeof, T.alignof, Null, r)
    /\ UNCHANGED <<raw, cpuVars, stackVars>>

\* the caller calls aligned_delete(t), with null or a pointer it got from
\* aligned_new and has not deleted
AlignedDelete(t) ==
    /\ t \in held \cup {Null}
    /\ LET calls == aligned_delete(t)
           st == Effects(Heap, calls)
       IN  /\ blocks' = st.blocks
           /\ objs' = st.objs
           /\ retired' = st.retired
           /\ last' = LastCall("aligned_delete", 0, 0, t,
                               [ret |-> Null, outcome |-> "returned", calls |-> calls])
    /\ held' = held \ {t}
    /\ UNCHANGED <<raw, cpuVars, stackVars>>

InitMem ==
    /\ blocks = {}
    /\ objs = {}
    /\ retired = {}
    /\ held = {}
    /\ raw = Null
    /\ last = LastCall("none", 0, 0, Null,
                       [ret |-> Null, outcome |-> "returned", calls |-> <<>>])

Init ==
    /\ x86 = TRUE
    /\ hw = [s \in Selectors |-> Zeros]
    /\ InitThreads
    /\ InitMem
    /\ debug = TRUE
    /\ InitTmp

Next ==
    \/ \E size \in 1..MaxSize, align \in Aligns : AlignedMalloc(size, align)
    \/ \E ptr \in Addrs \cup {Null} : AlignedFree(ptr)
    \/ \E T \in Types, throws \in BOOLEAN : AlignedNew(T, throws)
    \/ \E t \in Addrs \cup {Null} : AlignedDelete(t)

Spec == Init /\ [][Next]_vars

\* one thread calling every query, on every hardware of HwConfigs
InitCpu ==
    /\ x86 \in BOOLEAN
    /\ hw \in HwConfigs
    /\ InitThreads
    /\ InitMem
    /\ debug = TRUE
    /\ InitTmp

NextCpu ==
    \/ \E f \in Queries : Call(1, f)
    \/ \E s \in Selectors : DirectCpuid(1, s[1], s[2])
    \/ Cpuid(1)
    \/ Return(1)

SpecCpu == InitCpu /\ [][NextCpu]_vars

\* the queries concurrent threads call: one of each shape
MTQueries == {"cpu_has_sse2", "cpu_has_sse3", "cpu_has_avx2",
              "cpu_has_avx512vl", "cpu_has_avx512er"}

InitMT ==
    /\ x86 \in BOOLEAN
    /\ hw \in HwConfigsMT
    /\ InitThreads
    /\ InitMem
    /\ debug = TRUE
    /\ InitTmp

NextMT ==
    \/ \E t \in Threads, f \in MTQueries : Call(t, f)
    \/ \E t \in Threads : Cpuid(t)
    \/ \E t \in Threads : Return(t)

SpecMT == InitMT /\ [][NextMT]_vars

\* the two macros, in debug and in release builds
InitStack ==
    /\ x86 = TRUE
    /\ hw = [s \in Selectors |-> Zeros]
    /\ InitThreads
    /\ InitMem
    /\ debug \in BOOLEAN
    /\ InitTmp

NextStack ==
    \/ Alloca
    \/ AllocateStackOrHeap
    \/ ScopeExit

SpecStack == InitStack /\ [][NextStack]_vars

----------------------------------------------------------------------------
(* Properties of the feature probe *)

\* bit k of a 32-bit word, read off its value
BitSet(v, k) == IF k = 31 THEN v < 0 ELSE (Low31(v) \div (2 ^ k)) % 2 = 1

Returned(t) == pc[t] = "idle" /\ ret[t] # <<>>

\* C6: on a target that is not x86, cpuid leaves all four words 0 for every
\* leaf and sub-leaf, whatever the buffer held before, and every cpu_has_*
\* query returns false.
C6_NonX86AllFalse ==
    ~x86 =>
        \A t \in Threads :
            /\ (fn[t] = "cpuid" => buf[LocalBuf(t)] = Zeros)
            /\ (pc[t] = "return" /\ fn[t] \in ProbeQueries => buf[LocalBuf(t)] = Zeros)
            /\ (Returned(t) => ret[t] = <<FALSE>>)

C6_Witness ==
    /\ ~x86
    /\ hw[<<1, 0>>][2] = -1
    /\ fn[1] = "cpu_has_sse3"
    /\ Returned(1) /\ ret[1] = <<FALSE>>

\* the selector, register (index into info) and bit each query is documented
\* to report
FeatureBit ==
    [cpu_has_sse2       |-> <<1, 3, 26>>,
     cpu_has_sse3       |-> <<1, 2, 0>>,
     cpu_has_ssse3      |-> <<1, 2, 9>>,
     cpu_has_fma        |-> <<1, 2, 12>>,
     cpu_has_sse41      |-> <<1, 2, 19>>,
     cpu_has_sse42      |-> <<1, 2, 20>>,
     cpu_has_popcnt     |-> <<1, 2, 23>>,
     cpu_has_avx        |-> <<1, 2, 28>>,
     cpu_has_f16c       |-> <<1, 2, 29>>,
     cpu_has_rdrand     |-> <<1, 2, 30>>,
     cpu_has_avx2       |-> <<7, 1, 5>>,
     cpu_has_avx512f    |-> <<7, 1, 16>>,
     cpu_has_avx512dq   |-> <<7, 1, 17>>,
     cpu_has_avx512ifma |-> <<7, 1, 21>>,
     cpu_has_avx512pf   |-> <<7, 1, 26>>,
     cpu_has_avx512cd   |-> <<7, 1, 28>>,
     cpu_has_avx512bw   |-> <<7, 1, 30>>,
     cpu_has_avx512vl   |-> <<7, 1, 31>>]

\* C7: on x86 each query other than avx512er issues exactly one cpuid call and
\* returns true iff its one documented bit (leaf, sub-leaf 0, register, bit) is
\* set, whatever the other bits of the four registers are, bit 31 included.
C7_OneBitPerQuery ==
    \A t \in Threads :
        Returned(t) /\ fn[t] \in ProbeQueries =>
            /\ ncpuid[t] = 1
            /\ x86 =>
                 LET fb == FeatureBit[fn[t]]
                 IN  ret[t][1] = BitSet(hw[<<fb[1], 0>>][fb[2]], fb[3])

C7_Witness ==
    /\ x86
    /\ fn[1] = "cpu_has_avx512vl"
    /\ hw[<<7, 0>>][1] = MinInt32
    /\ Returned(1) /\ ret[1] = <<TRUE>>

\* C8: cpu_has_avx512er returns false on every architecture and for every
\* content of the cpuid registers, and issues no cpuid call.
C8_Avx512erFalse ==
    \A t \in Threads :
        fn[t] = "cpu_has_avx512er" =>
            /\ ncpuid[t] = 0
            /\ (Returned(t) => ret[t] = <<FALSE>>)

C8_Witness ==
    /\ x86
    /\ BitSet(hw[<<7, 0>>][1], 27)
    /\ buf[LocalBuf(1)] = hw[<<7, 0>>]
    /\ fn[1] = "cpu_has_avx512er"
    /\ Returned(1) /\ ret[1] = <<FALSE>>

\* what query f answers when it runs with no other call in progress
Alone(f) == ReturnValue(f, cpuid(Zeros, InfoType(f), Extra(f)))

\* C9: the hardware values being fixed, every call of a query returns the
\* same boolean, the one the query answers when run alone, however many calls
\* preceded it and however the calls of the threads interleave; two completed
\* calls of one query never disagree.
C9_Reentrant ==
    /\ [](\A t, u \in Threads :
            Returned(t) /\ Returned(u) /\ fn[t] = fn[u] => ret[t] = ret[u])
    /\ [][/\ hw' = hw
          /\ x86' = x86
          /\ \A t \in Threads :
                pc[t] = "return" /\ pc'[t] = "idle" => ret'[t] = <<Alone(fn[t])>>]_vars

\* thread 1 has its answer from leaf 1 while thread 2 is inside a call that
\* holds the words of leaf 7
C9_Witness ==
    /\ x86
    /\ fn[1] = "cpu_has_sse3" /\ Returned(1) /\ ret[1] = <<TRUE>>
    /\ fn[2] = "cpu_has_avx2" /\ pc[2] = "return"
    /\ buf[LocalBuf(2)] = hw[<<7, 0>>]
    /\ buf[LocalBuf(1)] = hw[<<1, 0>>]
    /\ hw[<<7, 0>>] # hw[<<1, 0>>]

----------------------------------------------------------------------------
(* Properties of the aligned allocator *)

MallocEvents(c) == {c.calls[k] : k \in {j \in 1..Len(c.calls) : c.calls[j].call = "aligned_malloc"}}
CallsNamed(c, name) == {k \in 1..Len(c.calls) : c.calls[k].call = name}
IsPow2(n) == \E k \in 0..(MaxAlignLog + 1) : n = 2 ^ k

\* C1: whenever aligned_malloc(size, align), size > 0 and align a power of two,
\* returns a non-null address a, a is a multiple of align and the size bytes
\* from a lie in memory and in no other live block (null is the only other
\* result).
C1_AlignedMalloc ==
    \A e \in MallocEvents(last) :
        /\ e.size > 0 /\ IsPow2(e.align)
        /\ e.p # Null =>
              /\ e.p % e.align = 0
              /\ e.p \in Addrs /\ e.p + e.size <= MemTop
              /\ [base |-> e.p, size |-> e.size] \in blocks
              /\ \A b \in blocks \ {[base |-> e.p, size |-> e.size]} :
                    ~Overlaps(b, e.p, e.size)

C1_Witness ==
    /\ last.op = "aligned_malloc"
    /\ last.align = 16 /\ last.size = 2
    /\ last.ret # Null
    /\ Cardinality(blocks) = 3

\* C2: when the aligned_malloc call of aligned_new returns null, aligned_new
\* returns null in the normal way and T's constructor is not invoked.
C2_NullOnAllocFailure ==
    (last.op = "aligned_new" /\ \E e \in MallocEvents(last) : e.p = Null) =>
        /\ last.outcome = "returned"
        /\ last.ret = Null
        /\ CallsNamed(last, "ctor") = {}
        /\ ObjectsAt(objs, Null) = {}

C2_Witness ==
    /\ last.op = "aligned_new"
    /\ last.calls = <<MallocEv(16, 16, Null)>>
    /\ last.ret = Null
    /\ blocks = {}

\* C3: once every non-null pointer aligned_new returned has been passed to
\* aligned_delete (and the caller holds no block of its own), every object has
\* had exactly its constructor, then its destructor, then its release, and no
\* block is live.
C3_RoundTrip ==
    (held = {} /\ raw = Null) =>
        /\ blocks = {}
        /\ objs = {}
        /\ retired \subseteq {<<"ctor", "dtor", "free">>}

\* C4: aligned_delete(t) with t non-null calls T's destructor on t once, then
\* aligned_free(t) once, in that order and nothing else; the block is released
\* after the destructor has run.
C4_DestroyThenFree ==
    (last.op = "aligned_delete" /\ last.arg # Null) =>
        /\ last.calls = <<DtorEv(last.arg), FreeEv(last.arg)>>
        /\ ObjectsAt(objs, last.arg) = {}
        /\ retired = {<<"ctor", "dtor", "free">>}
        /\ \A b \in blocks : b.base # last.arg

C4_Witness ==
    /\ last.op = "aligned_delete"
    /\ last.arg = 32
    /\ held # {}

\* C5: aligned_delete(nullptr) calls neither a destructor nor aligned_free, and
\* aligned_free(nullptr) releases nothing: either call, however often repeated,
\* leaves the live blocks, the objects and the caller's pointers as they were.
C5_NullIsNoOp ==
    [][(last'.op \in {"aligned_delete", "aligned_free"} /\ last'.arg = Null) =>
            /\ blocks' = blocks
            /\ objs' = objs
            /\ retired' = retired
            /\ held' = held
            /\ raw' = raw
            /\ last'.calls = <<>>]_vars

C5_Witness ==
    /\ last.op = "aligned_delete"
    /\ last.arg = Null
    /\ held # {}
    /\ raw # Null
    /\ Cardinality(blocks) = 3

\* C10: aligned_new<T> does not compile for a T with alignof(T) <=
\* alignof(void*), so every aligned_malloc call aligned_new makes asks for
\* sizeof(T) bytes at alignment alignof(T), a power of two greater than
\* alignof(void*).
C10_OverAlignedOnly ==
    last.op = "aligned_new" =>
        /\ last.align <= PtrAlign =>
              last.outcome = "ill-formed" /\ last.calls = <<>>
        /\ \A e \in MallocEvents(last) :
              /\ e.size = last.size
              /\ e.align = last.align
              /\ IsPow2(e.align)
              /\ e.align > PtrAlign

C10_Witness ==
    /\ last.op = "aligned_new"
    /\ last.align = PtrAlign
    /\ last.outcome = "ill-formed"
    /\ objs # {}

----------------------------------------------------------------------------
(* Properties of OIIO_ALLOCA and OIIO_ALLOCATE_STACK_OR_HEAP *)

RECURSIVE WideLimbs(_, _, _, _)
\* the five limbs of the product w * m as a number, nothing dropped
WideLimbs(w, m, k, c) ==
    IF k > 4 THEN <<c>>
    ELSE LET v == w[k] * m + c
         IN  <<v % LimbBase>> \o WideLimbs(w, m, k + 1, v \div LimbBase)

\* the number of bytes size elements of sizeof szof take
TrueBytes(size, szof) == WideLimbs(size, szof, 1, 0)

\* n >= 2^20 and n > 2^16 for a five-limb number n
AtLeast1MB(n) == n[5] > 0 \/ n[4] > 0 \/ n[3] > 0 \/ n[2] >= 16
Over64KB(n) == n[5] > 0 \/ n[4] > 0 \/ n[3] > 0 \/ n[2] > 1 \/ (n[2] = 1 /\ n[1] > 0)

\* C11: in a debug build OIIO_ALLOCA(type, size) fails its assertion for every
\* request of 2^20 bytes or more (size * sizeof(type) >= 2^20), whatever the
\* type, and yields nullptr, allocating nothing, when size is 0.
C11_AssertsFrom1MB ==
    (debug /\ tmp.macro = "OIIO_ALLOCA") =>
        /\ AtLeast1MB(TrueBytes(tmp.size, tmp.szof)) => tmp.did = "assert failed"
        /\ tmp.size = ZeroWord => tmp.did = "nullptr" /\ tmp.bytes = ZeroWord

\* C12: OIIO_ALLOCATE_STACK_OR_HEAP(var, T, size) gives var storage for size
\* elements of T: from the heap (new T[size] in the unique_ptr) exactly when
\* size * sizeof(T) is more than 65536 bytes, else from the stack by
\* OIIO_ALLOCA; the unique_ptr is non-empty only in the heap branch.
C12_StackOrHeap ==
    tmp.macro = "OIIO_ALLOCATE_STACK_OR_HEAP" =>
        /\ tmp.branch = "heap" <=> Over64KB(TrueBytes(tmp.size, tmp.szof))
        /\ tmp.branch = "heap" => tmp.heap = <<tmp.size>>
        /\ tmp.branch = "stack" =>
              /\ tmp.heap = <<>>
              /\ IF tmp.size = ZeroWord
                 THEN tmp.did = "nullptr"
                 ELSE /\ tmp.did = "alloca"
                      /\ tmp.bytes \o <<0>> = TrueBytes(tmp.size, tmp.szof)

\* C13: reached through OIIO_ALLOCATE_STACK_OR_HEAP, the assertion of
\* OIIO_ALLOCA never fails: for every element count and every sizeof(T) >= 1
\* the stack branch is taken only with fewer than 2^20 elements and at most
\* 65536 bytes in all.
C13_AssertNeverFails ==
    tmp.macro = "OIIO_ALLOCATE_STACK_OR_HEAP" =>
        /\ tmp.did # "assert failed"
        /\ tmp.branch = "stack" =>
              /\ Less(tmp.size, Shl20)
              /\ ~Over64KB(TrueBytes(tmp.size, tmp.szof))

----------------------------------------------------------------------------
(* Ownership of the block inside aligned_new *)

\* C14: when a call of aligned_new ends, by returning or by the exception of
\* T's constructor, every block its aligned_malloc call returned has either
\* been handed to the caller as the result or been released.
C14_NoOrphanBlock ==
    last.op = "aligned_new" =>
        \A e \in MallocEvents(last) :
            e.p # Null =>
                \/ last.outcome = "returned" /\ last.ret = e.p /\ e.p \in held
                \/ \A b \in blocks : b.base # e.p

====
